---- MODULE Spec2Model ----
(***************************************************************************)
(* Model of eml2pdf.py: the batch driver (batch_convert), the body         *)
(* extraction of parse_eml, the story built by eml_to_pdf and the text     *)
(* escaping of escape_para.                                                *)
(*                                                                         *)
(* Text is a sequence of one-character strings.  Four specifications share *)
(* the variables: SpecBatch runs batch_convert over a directory,           *)
(* SpecParse applies the body extraction of parse_eml to a message,        *)
(* SpecBuild builds the story of eml_to_pdf from a parsed record and       *)
(* SpecEscape applies escape_para to a text.                               *)
(***************************************************************************)
EXTENDS Integers, Naturals, Sequences, FiniteSets, TLC

VARIABLES
    \* ---- batch_convert ----
    dirFiles,           \* the files of input_dir
    outcome,            \* what eml_to_pdf does on each file (environment)
    progress_callback,  \* TRUE iff a callback was supplied
    outDirExists,       \* output_path exists
    outFiles,           \* pdf names present in output_path
    pc,                 \* position of the running function
    eml_files,          \* sorted(input_path.glob('*.eml'))
    total, success, errors,
    i,                  \* loop index of enumerate(eml_files), 0-based
    attempts,           \* names handed to eml_to_pdf, in call order
    cbLog,              \* arguments of the callback's invocations, in order
    result,             \* the returned tuple, or NoResult
    \* ---- parse_eml (body extraction) ----
    msg,                \* the message tree
    body,               \* data['body']
    \* ---- eml_to_pdf (story) ----
    data,               \* the record returned by parse_eml
    story,              \* the list of flowables
    \* ---- escape_para ----
    text,               \* argument
    escaped             \* return value

vars == <<dirFiles, outcome, progress_callback, outDirExists, outFiles, pc,
          eml_files, total, success, errors, i, attempts, cbLog, result,
          msg, body, data, story, text, escaped>>

NoResult == <<"none">>
None == <<"None">>

(***************************************************************************)
(* Bounds                                                                  *)
(***************************************************************************)
MaxFiles == 3       \* .eml files in the source directory
MaxTextLen == 4     \* length of the argument of escape_para
MaxBodyLen == 4     \* length of data['body'] handed to the story builder
MaxParts == 2       \* children of the root of a multipart message
MaxNested == 1      \* children of a nested multipart part
MaxHtmlLen == 5     \* length of the content of a text leaf
MaxBytesLen == 2    \* length of the content of a binary leaf

(***************************************************************************)
(* Generic sequence helpers                                                *)
(***************************************************************************)
Range(s) == { s[k] : k \in 1..Len(s) }

SeqsUpTo(S, n) == UNION { [1..k -> S] : k \in 0..n }

RECURSIVE Concat(_)
Concat(ss) == IF ss = <<>> THEN <<>> ELSE Head(ss) \o Concat(Tail(ss))

(***************************************************************************)
(* batch_convert                                                           *)
(***************************************************************************)
\* A directory entry: a stem and an extension.
EmlFile(n) == [stem |-> n, ext |-> "eml"]
OtherFile == [stem |-> 0, ext |-> "txt"]
AllFiles == { EmlFile(n) : n \in 1..MaxFiles } \cup { OtherFile }

\* eml_file.name and eml_file.stem + '.pdf'
FileName(f) == <<f.stem, f.ext>>
PdfName(f) == <<f.stem, "pdf">>

\* The classes of error eml_to_pdf can raise.  OSError and ValueError are the
\* anticipated I/O and format errors, TypeError stands for a programming
\* error, KeyboardInterrupt for an error outside the Exception hierarchy.
ExpectedErrors == {"OSError", "ValueError"}
UnexpectedErrors == {"TypeError"}
NonExceptionErrors == {"KeyboardInterrupt"}
Outcomes == {"ok"} \cup ExpectedErrors \cup UnexpectedErrors \cup NonExceptionErrors

\* `except Exception as e`: the classes the handler of the loop catches.
IsException_narrow(e) == e \in ExpectedErrors
IsException_none(e) == FALSE
IsException(e) == e \in ExpectedErrors \cup UnexpectedErrors

\* input_path.glob('*.eml')
Glob_all(files) == files
Glob(files) == { f \in files : f.ext = "eml" }

\* sorted(...): ascending by name
RECURSIVE Sorted(_)
Sorted(S) ==
    IF S = {} THEN <<>>
    ELSE LET m == CHOOSE f \in S : \A g \in S : f.stem <= g.stem
         IN <<m>> \o Sorted(S \ {m})

\* The summary text: f"... {success}/{total} ..." and, only if errors, the
\* error clause f", {errors} ..."
Summary(s, t, e) ==
    <<"done", s, t>> \o (IF e # 0 THEN <<"errors", e>> ELSE <<>>)
NoFilesSummary == <<"no .eml files">>

InitBatch ==
    /\ dirFiles \in SUBSET AllFiles
    /\ outcome \in [Glob(dirFiles) -> Outcomes]
    /\ progress_callback \in BOOLEAN
    /\ outDirExists \in BOOLEAN
    /\ outFiles = {}
    /\ pc = "start"
    /\ eml_files = <<>>
    /\ total = 0 /\ success = 0 /\ errors = 0 /\ i = 0
    /\ attempts = <<>>
    /\ cbLog = <<>>
    /\ result = NoResult
    /\ msg = None /\ body = None /\ data = None /\ story = <<>>
    /\ text = None /\ escaped = None

\* Lines 237-248: mkdir, glob, sort, the early return on no files, the counters.
Enumerate ==
    /\ pc = "start"
    /\ outDirExists' = TRUE
    /\ eml_files' = Sorted(Glob(dirFiles))
    /\ IF eml_files' = <<>>
       THEN /\ result' = <<0, 0, NoFilesSummary>>
            /\ pc' = "returned"
            /\ total' = total
       ELSE /\ result' = result
            /\ total' = Len(eml_files')
            /\ pc' = "convert"
    /\ success' = 0 /\ errors' = 0 /\ i' = 0
    /\ UNCHANGED <<dirFiles, outcome, progress_callback, outFiles, attempts,
                   cbLog, msg, body, data, story, text, escaped>>

\* Lines 250-255, 258-259: one eml_to_pdf call of the loop and the counter
\* that follows it; an error the handler does not catch leaves the function.
Convert ==
    /\ pc = "convert"
    /\ LET f == eml_files[i + 1]
           o == outcome[f]
       IN /\ attempts' = Append(attempts, FileName(f))
          /\ IF o = "ok"
             THEN /\ outFiles' = outFiles \cup {PdfName(f)}
                  /\ success' = success + 1
                  /\ errors' = errors
                  /\ pc' = "report"
             ELSE IF IsException(o)
             THEN /\ errors' = errors + 1
                  /\ UNCHANGED <<outFiles, success>>
                  /\ pc' = "report"
             ELSE /\ pc' = "raised"
                  /\ UNCHANGED <<outFiles, success, errors>>
    /\ UNCHANGED <<dirFiles, outcome, progress_callback, outDirExists,
                   eml_files, total, i, cbLog, result,
                   msg, body, data, story, text, escaped>>

\* The arguments of progress_callback(i + 1, total, eml_file.name, ok, err)
CallbackArgs_zero(k, f) ==
    [index |-> k, total |-> total, name |-> FileName(f),
     ok |-> outcome[f] = "ok",
     err |-> IF outcome[f] = "ok" THEN None ELSE <<outcome[f]>>]
CallbackArgs(k, f) ==
    [index |-> k + 1, total |-> total, name |-> FileName(f),
     ok |-> outcome[f] = "ok",
     err |-> IF outcome[f] = "ok" THEN None ELSE <<outcome[f]>>]

\* Lines 256-257, 260-261: the callback of the iteration, then the next
\* iteration or the end of the loop.
Report ==
    /\ pc = "report"
    /\ cbLog' = IF progress_callback
                THEN Append(cbLog, CallbackArgs(i, eml_files[i + 1]))
                ELSE cbLog
    /\ i' = i + 1
    /\ pc' = IF i + 1 < total THEN "convert" ELSE "summarise"
    /\ UNCHANGED <<dirFiles, outcome, progress_callback, outDirExists,
                   outFiles, eml_files, total, success, errors, attempts,
                   result, msg, body, data, story, text, escaped>>

\* Lines 263-267
Summarise ==
    /\ pc = "summarise"
    /\ result' = <<success, errors, Summary(success, total, errors)>>
    /\ pc' = "returned"
    /\ UNCHANGED <<dirFiles, outcome, progress_callback, outDirExists,
                   outFiles, eml_files, total, success, errors, i, attempts,
                   cbLog, msg, body, data, story, text, escaped>>

NextBatch == Enumerate \/ Convert \/ Report \/ Summarise

SpecBatch == InitBatch /\ [][NextBatch]_vars

(***************************************************************************)
(* Text                                                                    *)
(***************************************************************************)
Whitespace == {" ", "\n"}

\* str.strip()
RECURSIVE LStrip(_)
LStrip(s) == IF s # <<>> /\ Head(s) \in Whitespace THEN LStrip(Tail(s)) ELSE s
RECURSIVE RStrip(_)
RStrip(s) ==
    IF s # <<>> /\ s[Len(s)] \in Whitespace
    THEN RStrip(SubSeq(s, 1, Len(s) - 1)) ELSE s
Strip(s) == RStrip(LStrip(s))

StartsWith(s, p) == Len(p) <= Len(s) /\ SubSeq(s, 1, Len(p)) = p

\* str.replace(old, new): the non-overlapping occurrences, leftmost first
RECURSIVE Replace(_, _, _)
Replace(s, old, new) ==
    IF s = <<>> THEN <<>>
    ELSE IF StartsWith(s, old)
         THEN new \o Replace(SubSeq(s, Len(old) + 1, Len(s)), old, new)
         ELSE <<Head(s)>> \o Replace(Tail(s), old, new)

\* str.split('\n')
RECURSIVE Split(_, _)
Split(s, sep) ==
    IF \A k \in 1..Len(s) : s[k] # sep THEN <<s>>
    ELSE LET p == CHOOSE k \in 1..Len(s) :
                      s[k] = sep /\ \A j \in 1..(k - 1) : s[j] # sep
         IN <<SubSeq(s, 1, p - 1)>> \o Split(SubSeq(s, p + 1, Len(s)), sep)

(***************************************************************************)
(* escape_para                                                             *)
(***************************************************************************)
AmpEntity == <<"&", "a", "m", "p", ";">>
LtEntity == <<"&", "l", "t", ";">>
GtEntity == <<"&", "g", "t", ";">>
QuotEntity == <<"&", "q", "u", "o", "t", ";">>
NbspEntity == <<"&", "n", "b", "s", "p", ";">>

escape_para_ampLast(t) ==
    LET t1 == Replace(t, <<"<">>, LtEntity)
        t2 == Replace(t1, <<">">>, GtEntity)
        t3 == Replace(t2, <<"\"">>, QuotEntity)
        t4 == Replace(t3, <<"&">>, AmpEntity)
    IN Replace(t4, <<" ", " ">>, NbspEntity \o <<" ">>)
escape_para(t) ==
    LET t1 == Replace(t, <<"&">>, AmpEntity)
        t2 == Replace(t1, <<"<">>, LtEntity)
        t3 == Replace(t2, <<">">>, GtEntity)
        t4 == Replace(t3, <<"\"">>, QuotEntity)
    IN Replace(t4, <<" ", " ">>, NbspEntity \o <<" ">>)

(***************************************************************************)
(* eml_to_pdf: the story                                                   *)
(***************************************************************************)
\* The labels of the header lines (lines 200, 201, 204, 205), one token each.
LabelFrom == <<"sashidashinin">>
LabelTo == <<"atesaki">>
LabelCc == <<"CC">>
LabelDate == <<"nichiji">>

\* The literal markup of line 209-210, one token per tag.
FontOpen == <<"<font color=#888888>">>
FontClose == <<"</font>">>

Paragraph(t, style) == [kind |-> "Paragraph", text |-> t, style |-> style]
Spacer(h) == [kind |-> "Spacer", height |-> h]
HRFlowable == [kind |-> "HRFlowable"]

\* Lines 199-205
header_items_alwaysCc(d) ==
    <<<<LabelFrom, d.from>>, <<LabelTo, d.to>>, <<LabelCc, d.cc>>,
      <<LabelDate, d.date>>>>
header_items(d) ==
    <<<<LabelFrom, d.from>>, <<LabelTo, d.to>>>>
    \o (IF d.cc # <<>> THEN <<<<LabelCc, d.cc>>>> ELSE <<>>)
    \o <<<<LabelDate, d.date>>>>

\* Lines 208-212
HeaderLine(label, value) ==
    Paragraph(FontOpen \o escape_para(label) \o <<":">> \o FontClose
              \o NbspEntity \o NbspEntity \o escape_para(value), "Header")

\* Lines 222-226
BodyBlock(line) ==
    IF Strip(line) = <<>> THEN Spacer(3)
    ELSE Paragraph(escape_para(line), "Body")

\* Lines 193-226
Story(d) ==
    <<Paragraph(escape_para(d.subject), "Subject")>>
    \o [k \in 1..Len(header_items(d)) |->
            HeaderLine(header_items(d)[k][1], header_items(d)[k][2])]
    \o <<Spacer(5), HRFlowable, Spacer(5)>>
    \o [k \in 1..Len(Split(d.body, "\n")) |-> BodyBlock(Split(d.body, "\n")[k])]

\* The characters of the texts the specifications draw.
TextAlphabet == {"&", "<", ">", "\"", " ", "a", ";"}
BodyAlphabet == {"a", " ", "\n", "<"}
HeaderValues == {<<>>, <<"a", "&">>}
\* '(件名なし)', the subject of a message without one (line 82)
NoSubject == <<"(no subject)">>
Subjects == {NoSubject, <<"a">>, <<"&", "<">>, <<"\"", " ", " ", ">">>}

\* The records parse_eml returns: a non-empty subject, a stripped body.
ParsedRecords ==
    { [subject |-> s, from |-> f, to |-> t, cc |-> c, date |-> d, body |-> b] :
        s \in Subjects, f \in HeaderValues, t \in HeaderValues,
        c \in HeaderValues, d \in HeaderValues,
        b \in { x \in SeqsUpTo(BodyAlphabet, MaxBodyLen) : Strip(x) = x } }

BatchIdle ==
    /\ dirFiles = {} /\ outcome = <<>> /\ progress_callback = FALSE
    /\ outDirExists = FALSE /\ outFiles = {} /\ eml_files = <<>>
    /\ total = 0 /\ success = 0 /\ errors = 0 /\ i = 0
    /\ attempts = <<>> /\ cbLog = <<>> /\ result = NoResult

InitBuild ==
    /\ BatchIdle
    /\ pc = "build"
    /\ data \in ParsedRecords
    /\ story = <<>>
    /\ msg = None /\ body = None /\ text = None /\ escaped = None

InitEscape ==
    /\ BatchIdle
    /\ pc = "escape"
    /\ text \in SeqsUpTo(TextAlphabet, MaxTextLen)
    /\ escaped = None
    /\ msg = None /\ body = None /\ data = None /\ story = <<>>

\* eml_to_pdf, lines 193-226: the story of the parsed record
BuildStory ==
    /\ pc = "build"
    /\ story' = Story(data)
    /\ pc' = "built"
    /\ UNCHANGED <<dirFiles, outcome, progress_callback, outDirExists,
                   outFiles, eml_files, total, success, errors, i, attempts,
                   cbLog, result, msg, body, data, text, escaped>>

\* escape_para, lines 143-150
Escape ==
    /\ pc = "escape"
    /\ escaped' = escape_para(text)
    /\ pc' = "escaped"
    /\ UNCHANGED <<dirFiles, outcome, progress_callback, outDirExists,
                   outFiles, eml_files, total, success, errors, i, attempts,
                   cbLog, result, msg, body, data, story, text>>

InitDoc == InitBuild \/ InitEscape
NextDoc == BuildStory \/ Escape
SpecDoc == InitDoc /\ [][NextDoc]_vars

(***************************************************************************)
(* parse_eml: body extraction                                              *)
(***************************************************************************)
\* A leaf part: its content type, what get_content() does on it ("str": it
\* returns text, "bytes": it returns bytes, "raise": it or the decoding that
\* follows raises) and its content.
Leaf(ctype, payload, content) ==
    [kind |-> "leaf", ctype |-> ctype, payload |-> payload, content |-> content]
\* A multipart part and its children, in order.
Multipart(parts) == [kind |-> "multipart", ctype |-> "multipart/mixed", parts |-> parts]

\* msg.is_multipart()
IsMultipart(m) == m.kind = "multipart"

\* msg.walk(): the part itself, then its subparts depth first, in order
RECURSIVE Walk(_)
Walk(m) ==
    IF IsMultipart(m)
    THEN <<m>> \o Concat([k \in 1..Len(m.parts) |-> Walk(m.parts[k])])
    ELSE <<m>>

\* payload.decode(charset, errors='replace'): an undecodable byte becomes U+FFFD
Decode(bytes) == [k \in 1..Len(bytes) |-> IF bytes[k] = "BAD" THEN "U+FFFD" ELSE bytes[k]]

\* re.sub(r'<[^>]+>', '', payload): a `<`, one or more characters other than
\* `>`, and the `>` that follows them, leftmost first
RECURSIVE StripTags_word(_)
StripTags_word(s) ==
    IF s = <<>> THEN <<>>
    ELSE IF /\ s[1] = "<"
            /\ \E q \in 3..Len(s) : s[q] = ">" /\ \A j \in 2..(q - 1) : s[j] = "a"
         THEN LET q == CHOOSE q \in 3..Len(s) :
                           s[q] = ">" /\ \A j \in 2..(q - 1) : s[j] = "a"
              IN StripTags_word(SubSeq(s, q + 1, Len(s)))
         ELSE <<s[1]>> \o StripTags_word(Tail(s))
RECURSIVE StripTags(_)
StripTags(s) ==
    IF s = <<>> THEN <<>>
    ELSE IF /\ s[1] = "<"
            /\ \E q \in 3..Len(s) : s[q] = ">" /\ \A j \in 2..(q - 1) : s[j] # ">"
         THEN LET q == CHOOSE q \in 3..Len(s) :
                           s[q] = ">" /\ \A j \in 2..(q - 1) : s[j] # ">"
              IN StripTags(SubSeq(s, q + 1, Len(s)))
         ELSE <<s[1]>> \o StripTags(Tail(s))

\* '(本文を読み取れませんでした)', line 127
Unreadable == <<"(body could not be read)">>

\* Lines 91-103: the first text/plain part whose content can be read
RECURSIVE PlainBody(_)
PlainBody(parts) ==
    IF parts = <<>> THEN <<>>
    ELSE LET part == Head(parts)
         IN IF part.ctype = "text/plain" /\ part.payload = "str"
            THEN part.content
            ELSE IF part.ctype = "text/plain" /\ part.payload = "bytes"
            THEN Decode(part.content)
            ELSE PlainBody(Tail(parts))

\* Lines 106-117: the first text/html part whose content is text, tags removed
RECURSIVE HtmlBody(_)
HtmlBody(parts) ==
    IF parts = <<>> THEN <<>>
    ELSE LET part == Head(parts)
         IN IF part.ctype = "text/html" /\ part.payload = "str"
            THEN Strip(StripTags(part.content))
            ELSE HtmlBody(Tail(parts))

\* Lines 119-127: a message that is not multipart
LeafBody_empty(m) ==
    IF m.payload = "str" /\ m.ctype \in {"text/plain", "text/html"}
    THEN m.content ELSE <<>>
LeafBody(m) ==
    IF m.payload = "str" THEN m.content
    ELSE IF m.payload = "bytes" THEN Decode(m.content)
    ELSE IF m.payload = "raise" THEN Unreadable
    ELSE <<>>

\* Lines 89-128: `if not body` sends a multipart message to the text/html
\* parts whenever the text/plain pass left body empty.
MultipartBody(m) ==
    IF PlainBody(Walk(m)) # <<>> THEN PlainBody(Walk(m)) ELSE HtmlBody(Walk(m))

\* Lines 88-135: data['body']
ExtractBody(m) ==
    Strip(IF IsMultipart(m) THEN MultipartBody(m) ELSE LeafBody(m))

\* The messages the specification draws.
HtmlAlphabet == {"<", ">", "a", " "}
TextContents == SeqsUpTo(HtmlAlphabet, MaxHtmlLen)
ByteContents == SeqsUpTo({"b", "BAD", " "}, MaxBytesLen)

\* Leaves as the email library yields them: text parts give text, binary
\* parts give bytes, and any part may fail to be read.
PlainLeaves(contents) ==
    { Leaf("text/plain", "str", c) : c \in contents }
    \cup { Leaf("text/plain", "raise", <<>>) }
HtmlLeaves(contents) ==
    { Leaf("text/html", "str", c) : c \in contents }
    \cup { Leaf("text/html", "raise", <<>>) }
BinaryLeaves(contents) ==
    { Leaf("application/octet-stream", "bytes", c) : c \in contents }
    \cup { Leaf("application/octet-stream", "raise", <<>>) }

\* The leaves of the part trees.
TreeLeaves ==
    PlainLeaves({<<>>, <<"a">>}) \cup HtmlLeaves({<<"<", "a", ">", "a">>})
    \cup { Leaf("application/octet-stream", "bytes", <<"b">>) }

NestedParts == { Multipart(ps) : ps \in SeqsUpTo(TreeLeaves, MaxNested) \ {<<>>} }
TreeMessages ==
    { Multipart(ps) : ps \in SeqsUpTo(TreeLeaves \cup NestedParts, MaxParts) \ {<<>>} }

\* Multipart messages without a text/plain part, over every HTML content.
HtmlMessages ==
    { Multipart(<<h>>) : h \in HtmlLeaves(TextContents) }
    \cup { Multipart(<<Leaf("text/html", "raise", <<>>), h>>) :
              h \in HtmlLeaves(TextContents) }

\* Messages that are a single leaf.
LeafMessages ==
    PlainLeaves(TextContents) \cup HtmlLeaves(TextContents)
    \cup BinaryLeaves(ByteContents)

Messages == TreeMessages \cup HtmlMessages \cup LeafMessages

InitParse ==
    /\ BatchIdle
    /\ pc = "parse"
    /\ msg \in Messages
    /\ body = None
    /\ data = None /\ story = <<>> /\ text = None /\ escaped = None

\* parse_eml, lines 88-135
parse_eml ==
    /\ pc = "parse"
    /\ body' = ExtractBody(msg)
    /\ pc' = "parsed"
    /\ UNCHANGED <<dirFiles, outcome, progress_callback, outDirExists,
                   outFiles, eml_files, total, success, errors, i, attempts,
                   cbLog, result, msg, data, story, text, escaped>>

NextParse == parse_eml
SpecParse == InitParse /\ [][NextParse]_vars

(***************************************************************************)
(* Properties of the body extraction                                       *)
(***************************************************************************)
\* The leaves of the message in pre-order.
IsLeafPart(part) == part.kind = "leaf"
Leaves(m) == SelectSeq(Walk(m), IsLeafPart)
HasLeaf(m, ctype) == \E k \in 1..Len(Leaves(m)) : Leaves(m)[k].ctype = ctype
FirstLeaf(m, ctype) ==
    Leaves(m)[CHOOSE k \in 1..Len(Leaves(m)) :
                /\ Leaves(m)[k].ctype = ctype
                /\ \A j \in 1..(k - 1) : Leaves(m)[j].ctype # ctype]
HasReadableLeaf(m, ctype) ==
    \E k \in 1..Len(Leaves(m)) :
        Leaves(m)[k].ctype = ctype /\ Leaves(m)[k].payload = "str"
FirstReadableLeaf(m, ctype) ==
    Leaves(m)[CHOOSE k \in 1..Len(Leaves(m)) :
                /\ Leaves(m)[k].ctype = ctype /\ Leaves(m)[k].payload = "str"
                /\ \A j \in 1..(k - 1) :
                      ~(Leaves(m)[j].ctype = ctype /\ Leaves(m)[j].payload = "str")]
Trimmed(s) == s = <<>> \/ (s[1] \notin Whitespace /\ s[Len(s)] \notin Whitespace)

\* C5: on a multipart message with a text/plain leaf and a text/html leaf the
\* body is the (trimmed) content of the first text/plain leaf in pre-order,
\* whatever that content is, the empty content included.
C5_PlainPreferred ==
    (/\ pc = "parsed" /\ IsMultipart(msg)
     /\ HasLeaf(msg, "text/plain") /\ HasLeaf(msg, "text/html")
     /\ FirstLeaf(msg, "text/plain").payload = "str") =>
        body = Strip(FirstLeaf(msg, "text/plain").content)

\* C6 as stated: a single-leaf message yields its content when the leaf is
\* textual and readable, and the empty text in every other case.
C6_LeafTextOrEmpty ==
    (pc = "parsed" /\ ~IsMultipart(msg)) =>
        body = IF msg.ctype \in {"text/plain", "text/html"} /\ msg.payload = "str"
               THEN Strip(msg.content) ELSE <<>>

\* C6 as amended: a single-leaf message yields its trimmed text when its
\* content is text; a non-textual leaf whose content is bytes yields those
\* bytes decoded, undecodable bytes replaced, and trimmed; a leaf whose content
\* cannot be read yields the fixed placeholder text.
C6_LeafTextBytesOrPlaceholder ==
    (pc = "parsed" /\ ~IsMultipart(msg)) =>
        /\ msg.payload = "str" => body = Strip(msg.content)
        /\ msg.payload = "bytes" =>
              body = Strip([k \in 1..Len(msg.content) |->
                              IF msg.content[k] = "BAD" THEN "U+FFFD"
                              ELSE msg.content[k]])
        /\ msg.payload = "raise" => body = Unreadable

C6_Witness ==
    /\ pc = "parsed"
    /\ msg = Leaf("application/octet-stream", "bytes", <<"BAD", "b">>)
    /\ body = <<"U+FFFD", "b">>

\* C7 as stated: on a multipart message with no text/plain leaf and a
\* text/html leaf the body is trimmed and holds no `<` followed later by a `>`.
C7_NoAngleBracketPair ==
    (/\ pc = "parsed" /\ IsMultipart(msg)
     /\ ~HasLeaf(msg, "text/plain") /\ HasLeaf(msg, "text/html")) =>
        /\ Trimmed(body)
        /\ ~\E p, q \in 1..Len(body) : p < q /\ body[p] = "<" /\ body[q] = ">"

\* C7 as amended: on such a message the body is the content of the first
\* readable text/html leaf with its tags removed, trimmed, and holds no `<`
\* followed by one or more characters other than `>` and then a `>`.
C7_NoTagRemains ==
    (/\ pc = "parsed" /\ IsMultipart(msg)
     /\ ~HasLeaf(msg, "text/plain") /\ HasLeaf(msg, "text/html")) =>
        /\ Trimmed(body)
        /\ ~\E p, q \in 1..Len(body) :
              /\ q > p + 1 /\ body[p] = "<" /\ body[q] = ">"
              /\ \A j \in (p + 1)..(q - 1) : body[j] # ">"
        /\ HasReadableLeaf(msg, "text/html") =>
              body = Strip(StripTags(FirstReadableLeaf(msg, "text/html").content))
        /\ ~HasReadableLeaf(msg, "text/html") => body = <<>>

C7_Witness ==
    /\ pc = "parsed"
    /\ msg = Multipart(<<Leaf("text/html", "str", <<"<", "a", ">", "a", " ">>)>>)
    /\ body = <<"a">>

(***************************************************************************)
(* Properties of batch_convert                                             *)
(***************************************************************************)
\* The files of the directory that carry the input extension.
Matched == { f \in dirFiles : f.ext = "eml" }
Attempted == { eml_files[k] : k \in 1..Len(attempts) }
AllHandled == \A f \in Matched : outcome[f] \in {"ok"} \cup ExpectedErrors

C2_UnexpectedPropagates ==
    \A k \in 1..Len(attempts) :
        outcome[eml_files[k]] \in UnexpectedErrors =>
            /\ pc = "raised"
            /\ k = Len(attempts)
            /\ result = NoResult

\* C2 as amended: every error of the Exception hierarchy, anticipated or not,
\* is recovered as a per-file failure and counted; only an error outside the
\* Exception hierarchy leaves batch_convert, and then no later file is
\* attempted, the failing file is not reported and no result is returned.
C2_OnlyNonExceptionPropagates ==
    /\ \A k \in 1..Len(attempts) :
          LET o == outcome[eml_files[k]]
          IN /\ o \in NonExceptionErrors =>
                   /\ pc = "raised"
                   /\ k = Len(attempts)
                   /\ result = NoResult
                   /\ Len(cbLog) < k
             /\ o \in ExpectedErrors \cup UnexpectedErrors =>
                   ~(pc = "raised" /\ k = Len(attempts))
    /\ pc = "raised" => result = NoResult
    /\ pc # "raised" =>
          errors = Cardinality({ k \in 1..Len(attempts) :
                      outcome[eml_files[k]] \in ExpectedErrors \cup UnexpectedErrors })

C2_Witness ==
    /\ pc = "raised"
    /\ Len(attempts) = 2 /\ total = 3
    /\ outcome[eml_files[1]] \in UnexpectedErrors
    /\ errors = 1

C4_EmptyBatch ==
    (Matched = {} /\ pc # "start") =>
        /\ pc = "returned"
        /\ result = <<0, 0, NoFilesSummary>>
        /\ outDirExists
        /\ attempts = <<>>
        /\ outFiles = {}
        /\ cbLog = <<>>

C4_Witness ==
    /\ pc = "returned" /\ Matched = {} /\ dirFiles # {}
    /\ progress_callback /\ outDirExists
    /\ result = <<0, 0, NoFilesSummary>>

(***************************************************************************)
(* Properties of the story and of escape_para                              *)
(***************************************************************************)
Entities == {AmpEntity, LtEntity, GtEntity, QuotEntity, NbspEntity}

\* The number of places of s where p occurs.
CountOcc(s, p) ==
    Cardinality({ k \in 1..Len(s) :
                    k + Len(p) - 1 <= Len(s) /\ SubSeq(s, k, k + Len(p) - 1) = p })

\* e carries no raw markup character and each of its `&` starts an entity.
SafeMarkup(e) ==
    /\ \A k \in 1..Len(e) : e[k] \notin {"<", ">", "\""}
    /\ \A k \in 1..Len(e) :
          e[k] = "&" => \E n \in Entities : StartsWith(SubSeq(e, k, Len(e)), n)

\* e is t with each markup character escaped exactly once.
EscapedOnce(e, t) ==
    /\ SafeMarkup(e)
    /\ CountOcc(e, AmpEntity) = CountOcc(t, <<"&">>)
    /\ CountOcc(e, LtEntity) = CountOcc(t, <<"<">>)
    /\ CountOcc(e, GtEntity) = CountOcc(t, <<">">>)
    /\ CountOcc(e, QuotEntity) = CountOcc(t, <<"\"">>)

HeaderCount == IF data.cc # <<>> THEN 4 ELSE 3
\* The markup the builder itself puts in front of a header value.
HeaderPrefix(label) ==
    FontOpen \o label \o <<":">> \o FontClose \o NbspEntity \o NbspEntity
IsHeaderFor(b, label) ==
    b.kind = "Paragraph" /\ b.style = "Header" /\ StartsWith(b.text, HeaderPrefix(label))
HeaderValueOf(b, label) ==
    SubSeq(b.text, Len(HeaderPrefix(label)) + 1, Len(b.text))
IsTitle(b) == b.kind = "Paragraph" /\ b.style = "Subject"
IsBodyBlock(b) == b.kind = "Paragraph" /\ b.style = "Body"

\* C8: the story starts with exactly one title carrying the subject, then the
\* from line, the to line, a CC line iff cc is non-empty, the date line, then
\* spacer, rule, spacer; no body block precedes the date line and no second
\* title appears.
C8_StoryLayout ==
    pc = "built" =>
        LET n == HeaderCount
        IN /\ Len(story) >= n + 5
           /\ IsTitle(story[1])
           /\ story[1].text = escape_para(data.subject)
           /\ \A k \in 2..Len(story) : ~IsTitle(story[k])
           /\ IsHeaderFor(story[2], LabelFrom)
           /\ HeaderValueOf(story[2], LabelFrom) = escape_para(data.from)
           /\ IsHeaderFor(story[3], LabelTo)
           /\ HeaderValueOf(story[3], LabelTo) = escape_para(data.to)
           /\ data.cc # <<>> =>
                 /\ IsHeaderFor(story[4], LabelCc)
                 /\ HeaderValueOf(story[4], LabelCc) = escape_para(data.cc)
           /\ Cardinality({ k \in 1..Len(story) : IsHeaderFor(story[k], LabelCc) })
                 = (IF data.cc # <<>> THEN 1 ELSE 0)
           /\ IsHeaderFor(story[n + 1], LabelDate)
           /\ HeaderValueOf(story[n + 1], LabelDate) = escape_para(data.date)
           /\ story[n + 2] = Spacer(5)
           /\ story[n + 3] = HRFlowable
           /\ story[n + 4] = Spacer(5)
           /\ \A k \in 1..(n + 4) : ~IsBodyBlock(story[k])
           /\ \A k \in (n + 5)..Len(story) :
                 story[k].kind = "Spacer" \/ IsBodyBlock(story[k])

C8_Witness ==
    /\ pc = "built"
    /\ data.cc # <<>>
    /\ Len(story) = 11
    /\ IsHeaderFor(story[4], LabelCc)
    /\ IsBodyBlock(story[9]) /\ story[10] = Spacer(3) /\ IsBodyBlock(story[11])

BodyLines == Split(data.body, "\n")

\* C9: the subject, every header value and every non-blank body line reach
\* their block escaped, and escaping leaves no raw `<`, `>` or `"`, makes every
\* `&` the start of an entity, and escapes each markup character of the input
\* once and only once.
C9_EscapedBeforeEmbedding ==
    /\ pc = "escaped" => EscapedOnce(escaped, text)
    /\ pc = "built" =>
          LET n == HeaderCount
              items == <<<<LabelFrom, data.from>>, <<LabelTo, data.to>>>>
                       \o (IF data.cc # <<>> THEN <<<<LabelCc, data.cc>>>> ELSE <<>>)
                       \o <<<<LabelDate, data.date>>>>
          IN /\ EscapedOnce(story[1].text, data.subject)
             /\ \A k \in 1..n :
                   /\ IsHeaderFor(story[k + 1], items[k][1])
                   /\ EscapedOnce(HeaderValueOf(story[k + 1], items[k][1]), items[k][2])
             /\ Len(story) = n + 4 + Len(BodyLines)
             /\ \A k \in 1..Len(BodyLines) :
                   IsBodyBlock(story[n + 4 + k]) =>
                       EscapedOnce(story[n + 4 + k].text, BodyLines[k])
             /\ \A k \in 1..Len(BodyLines) :
                   Strip(BodyLines[k]) # <<>> => IsBodyBlock(story[n + 4 + k])

C9_Witness ==
    /\ pc = "built"
    /\ data.subject = <<"&", "<">>
    /\ story[1].text = AmpEntity \o LtEntity
    /\ data.from = <<"a", "&">>
    /\ \E k \in 1..Len(story) :
          IsBodyBlock(story[k]) /\ story[k].text = <<"a">> \o LtEntity

\* C10: the output of escape_para never holds two adjacent space characters,
\* whatever the length of the runs of spaces in its argument.
C10_NoAdjacentSpaces ==
    pc = "escaped" =>
        \A k \in 1..(Len(escaped) - 1) : ~(escaped[k] = " " /\ escaped[k + 1] = " ")

====
